---------------------------- MODULE Spec2Model ----------------------------
(***************************************************************************)
(* Proof-of-work blockchain engine: block factory, miner, chain assembly   *)
(* and chain validator, with the digest helper they call, and the React    *)
(* component App that drives the engine from its effects and handlers.     *)
(*                                                                         *)
(* Strings are sequences of UTF-16 code units (naturals), so concatenation *)
(* is \o and String(n) is the sequence of the decimal digits' code units.  *)
(***************************************************************************)
EXTENDS Naturals, Integers, Sequences, FiniteSets, TLC

VARIABLES
    chain,      \* the caller's chain: the array handed to addBlock / validateChain
    mined,      \* the blocks of `chain` as the engine returned them
    minedWith,  \* the algorithm each block of `mined` was mined with
    tampered,   \* TRUE once the caller has altered an entry of `chain`
    call,       \* the last engine call: its arguments and what it returned
    app,        \* App's other React state, and whether it is mounted or stuck
    runs,       \* App's asynchronous operations that have not settled yet
    clicks      \* what the user has done to App so far

vars == <<chain, mined, minedWith, tampered, call, app, runs, clicks>>

-----------------------------------------------------------------------------
(* Bounds of the model.                                                    *)

\* longest chain the engine is asked to build
MaxChain == 2
\* longest chain built before an entry is altered
MaxTamperChain == 3
\* difficulties 0..MaxDifficulty are requested
MaxDifficulty == 2
\* Date.now() / DateTime.utc().toMillis() return a value in 1..MaxTime
MaxTime == 2
\* createBlock is called directly with index in 0..MaxIndex
MaxIndex == 2
\* createBlock is called directly with nonce in 0..MaxNonce
MaxNonce == 2

SupportedAlgorithm == {"SHA-1", "SHA-256", "SHA-384", "SHA-512"}

\* the algorithms the calls are made with
Algorithms == {"SHA-1", "SHA-256"}

Difficulties == 0..MaxDifficulty

Timestamps == 1..MaxTime

-----------------------------------------------------------------------------
(* String literals of the source, as code units.                           *)

\* ""
Empty == <<>>
\* "0"
Zero == <<48>>
\* "Genesis Block"
GenesisTransaction == <<71, 101, 110, 101, 115, 105, 115, 32, 66, 108, 111, 99, 107>>
\* "tx1"
Tx1 == <<116, 120, 49>>
\* "Oops! I broke this one"
Oops == <<79, 111, 112, 115, 33, 32, 73, 32, 98, 114, 111, 107, 101, 32,
          116, 104, 105, 115, 32, 111, 110, 101>>

\* the transactions the calls are made with (the engine accepts any string)
Transactions == {Empty, Tx1}

\* the previousHash arguments createBlock is called with directly
PreviousHashes == {Zero, <<97, 48>>}

-----------------------------------------------------------------------------
(* JavaScript string primitives.                                           *)

\* String(n) for a non-negative integer n: plain decimal, no leading zeros
RECURSIVE NumToString(_)
NumToString(n) ==
    IF n < 10 THEN <<48 + n>>
    ELSE NumToString(n \div 10) \o <<48 + (n % 10)>>

\* "0".repeat(count)
Repeat(s, count) == [i \in 1..(count * Len(s)) |-> s[((i - 1) % Len(s)) + 1]]

\* the elements of an array
Range(f) == {f[i] : i \in DOMAIN f}

\* s.startsWith(prefix)
StartsWith(s, prefix) ==
    /\ Len(prefix) <= Len(s)
    /\ \A i \in 1..Len(prefix) : s[i] = prefix[i]

\* s.padStart(width, "0")
PadStart(s, width) ==
    IF Len(s) >= width THEN s ELSE Repeat(Zero, width - Len(s)) \o s

\* one hexadecimal digit of Number.prototype.toString(16)
HexDigit(d) == IF d < 10 THEN 48 + d ELSE 87 + d

\* b.toString(16) for a byte b
ByteToString16(b) ==
    IF b < 16 THEN <<HexDigit(b)>> ELSE <<HexDigit(b \div 16), HexDigit(b % 16)>>

\* Array.from(bytes).map(b => b.toString(16).padStart(2, "0")).join("")
ToHex(bytes) ==
    [i \in 1..(2 * Len(bytes)) |->
        PadStart(ByteToString16(bytes[(i + 1) \div 2]), 2)[((i - 1) % 2) + 1]]

\* the UTF-8 bytes of one code unit (surrogate pairs do not occur)
Utf8Unit(c) ==
    IF c < 128 THEN <<c>>
    ELSE IF c < 2048 THEN <<192 + (c \div 64), 128 + (c % 64)>>
    ELSE <<224 + (c \div 4096), 128 + ((c \div 64) % 64), 128 + (c % 64)>>

RECURSIVE Utf8From(_, _)
Utf8From(data, i) ==
    IF i > Len(data) THEN <<>> ELSE Utf8Unit(data[i]) \o Utf8From(data, i + 1)

\* new TextEncoder().encode(data)
TextEncode(data) ==
    IF \A i \in 1..Len(data) : Len(Utf8Unit(data[i])) = 1
    THEN [i \in 1..Len(data) |-> Utf8Unit(data[i])[1]]
    ELSE Utf8From(data, 1)

-----------------------------------------------------------------------------
(* The digest provider, window.crypto.subtle.digest.  It is a black box to *)
(* the engine; the model takes one deterministic function of (algorithm,   *)
(* data).  Its output is a run of leading bytes chosen by a checksum of    *)
(* the input (so that the number of leading '0' characters of the hex text *)
(* varies with the nonce, and every difficulty up to 4 is met by some      *)
(* nonce), then a byte that marks the algorithm, then a three-byte         *)
(* fingerprint of the input.  Digests of two algorithms never agree;       *)
(* digests of two inputs agree only if their fingerprints collide.         *)

\* byte length of the algorithm's real digest, used as the algorithm's mark
DigestSize(algorithm) ==
    CASE algorithm = "SHA-1" -> 20
      [] algorithm = "SHA-256" -> 32
      [] algorithm = "SHA-384" -> 48
      [] algorithm = "SHA-512" -> 64

RECURSIVE SumFrom(_, _)
SumFrom(bytes, i) ==
    IF i > Len(bytes) THEN 0 ELSE bytes[i] + SumFrom(bytes, i + 1)

\* the fingerprint is a polynomial in the bytes, modulo 240^3
FingerprintModulus == 240 * 240 * 240

RECURSIVE Fingerprint(_, _, _)
Fingerprint(bytes, i, acc) ==
    IF i > Len(bytes) THEN acc
    ELSE Fingerprint(bytes, i + 1, (acc * 131 + bytes[i]) % FingerprintModulus)

\* the leading bytes for each checksum: 4, 0, 1, 0, 2, 3 leading '0' characters
LeadingBytes == << <<0, 0>>, <<>>, <<15>>, <<>>, <<0>>, <<0, 15>> >>

SubtleDigest(algorithm, buffer) ==
    LET mix == (SumFrom(buffer, 1) + DigestSize(algorithm)) % Len(LeadingBytes)
        fp == Fingerprint(buffer, 1, DigestSize(algorithm))
    IN  LeadingBytes[mix + 1] \o
        <<DigestSize(algorithm),
          16 + (fp % 240), 16 + ((fp \div 240) % 240), 16 + (fp \div (240 * 240))>>

\* hash() rejects a missing algorithm or empty data
MissingParameters(algorithm, data) == algorithm = "" \/ data = Empty

\* hash with the algorithm fixed to its documented default
hashIgnoresAlgorithm(algorithm, data) ==
    ToHex(SubtleDigest("SHA-256", TextEncode(data)))

\* hash(algorithm, data), format "hex", when it does not throw
hash(algorithm, data) == ToHex(SubtleDigest(algorithm, TextEncode(data)))

-----------------------------------------------------------------------------
(* The engine: createBlock, mineBlock, createGenesisBlock, addBlock and    *)
(* validateChain.  Each returns a record with the status of the call       *)
(* ("ok" or "throw"), its value, and `digests`: the data handed to the     *)
(* digest provider during the call, in order.                              *)

\* index + timestamp + transaction + previousHash + nonce, evaluated left to
\* right by JavaScript: the two leading numbers are added, the sum is turned
\* to text when the first string is appended, and so is the trailing nonce
JsPlus(index, timestamp, transaction, previousHash, nonce) ==
    NumToString(index + timestamp) \o transaction \o previousHash \o NumToString(nonce)

Block(index, timestamp, transaction, previousHash, nonce, blockHash, duration) ==
    [index |-> index, timestamp |-> timestamp, transaction |-> transaction,
     previousHash |-> previousHash, nonce |-> nonce, hash |-> blockHash,
     duration |-> duration]

createBlock(algorithm, index, timestamp, transaction, previousHash, nonce) ==
    LET data == JsPlus(index, timestamp, transaction, previousHash, nonce)
    IN  IF MissingParameters(algorithm, data)
        THEN [status |-> "throw",
              block |-> Block(index, timestamp, transaction, previousHash, nonce, Empty, 0),
              digests |-> <<>>]
        ELSE [status |-> "ok",
              block |-> Block(index, timestamp, transaction, previousHash, nonce,
                              hash(algorithm, data), 0),
              digests |-> <<data>>]

\* mineBlock with the check moved after the first new candidate
RECURSIVE mineBlockCreatesFirst(_, _, _)
mineBlockCreatesFirst(block, algorithm, difficulty) ==
    LET newBlock == createBlock(algorithm, block.index, block.timestamp,
                                block.transaction, block.previousHash,
                                block.nonce + 1)
        rest == mineBlockCreatesFirst(newBlock.block, algorithm, difficulty)
    IN  IF newBlock.status = "throw"
        THEN newBlock
        ELSE IF StartsWith(newBlock.block.hash, Repeat(Zero, difficulty))
        THEN newBlock
        ELSE [status |-> rest.status, block |-> rest.block,
              digests |-> newBlock.digests \o rest.digests]

\* mineBlock that takes a block without a hash as not mined yet
RECURSIVE mineBlockNeedsHash(_, _, _)
mineBlockNeedsHash(block, algorithm, difficulty) ==
    LET target == Repeat(Zero, difficulty)
    IN  IF block.hash # Empty /\ StartsWith(block.hash, target)
        THEN [status |-> "ok", block |-> block, digests |-> <<>>]
        ELSE LET newBlock == createBlock(algorithm, block.index, block.timestamp,
                                         block.transaction, block.previousHash,
                                         block.nonce + 1)
                 rest == mineBlockNeedsHash(newBlock.block, algorithm, difficulty)
             IN  IF newBlock.status = "throw"
                 THEN newBlock
                 ELSE [status |-> rest.status, block |-> rest.block,
                       digests |-> newBlock.digests \o rest.digests]

RECURSIVE mineBlock(_, _, _)
mineBlock(block, algorithm, difficulty) ==
    LET target == Repeat(Zero, difficulty)
    IN  IF StartsWith(block.hash, target)
        THEN [status |-> "ok", block |-> block, digests |-> <<>>]
        ELSE LET newBlock == createBlock(algorithm, block.index, block.timestamp,
                                         block.transaction, block.previousHash,
                                         block.nonce + 1)
                 rest == mineBlock(newBlock.block, algorithm, difficulty)
             IN  IF newBlock.status = "throw"
                 THEN newBlock
                 ELSE [status |-> rest.status, block |-> rest.block,
                       digests |-> newBlock.digests \o rest.digests]

\* performance.now() - start: the performance clock ticks once per digest
\* the call has awaited
Elapsed(digests) == Len(digests)

createGenesisBlock(algorithm, difficulty, now) ==
    LET template == Block(0, now, GenesisTransaction, Zero, 0, Empty, 0)
        r == mineBlock(template, algorithm, difficulty)
    IN  [status |-> r.status,
         block |-> [r.block EXCEPT !.duration = Elapsed(r.digests)],
         digests |-> r.digests]

\* addBlock with chain.push(block) in place of the spread into a new array
addBlockPushesInPlace(blocks, transaction, algorithm, difficulty, now) ==
    IF Len(blocks) = 0
    THEN [status |-> "throw", chain |-> <<>>, input |-> blocks, digests |-> <<>>]
    ELSE LET previousBlock == blocks[Len(blocks)]
             templateBlock == createBlock(algorithm, previousBlock.index + 1, now,
                                          transaction, previousBlock.hash, 0)
             minedBlock == mineBlock(templateBlock.block, algorithm, difficulty)
             digests == templateBlock.digests \o minedBlock.digests
             pushed == blocks \o
                 << [minedBlock.block EXCEPT !.duration = Elapsed(digests)] >>
         IN  [status |-> "ok", chain |-> pushed, input |-> pushed, digests |-> digests]

\* addBlock that starts the chain when there is no previous block
addBlockStartsChain(blocks, transaction, algorithm, difficulty, now) ==
    LET previousIndex == IF Len(blocks) = 0 THEN -1 ELSE blocks[Len(blocks)].index
        previousHash == IF Len(blocks) = 0 THEN Zero ELSE blocks[Len(blocks)].hash
        templateBlock == createBlock(algorithm, previousIndex + 1, now, transaction,
                                     previousHash, 0)
        minedBlock == mineBlock(templateBlock.block, algorithm, difficulty)
        digests == templateBlock.digests \o minedBlock.digests
    IN  [status |-> "ok",
         chain |-> blocks \o
             << [minedBlock.block EXCEPT !.duration = Elapsed(digests)] >>,
         input |-> blocks,
         digests |-> digests]

\* `input` is the array passed in, as it is after the call; `chain` is the
\* array returned
addBlock(blocks, transaction, algorithm, difficulty, now) ==
    IF Len(blocks) = 0
    THEN \* previousBlock is undefined: reading previousBlock.index throws
         [status |-> "throw", chain |-> <<>>, input |-> blocks, digests |-> <<>>]
    ELSE LET previousBlock == blocks[Len(blocks)]
             newIndex == previousBlock.index + 1
             templateBlock == createBlock(algorithm, newIndex, now, transaction,
                                          previousBlock.hash, 0)
             minedBlock == mineBlock(templateBlock.block, algorithm, difficulty)
             digests == templateBlock.digests \o minedBlock.digests
         IN  IF templateBlock.status = "throw" \/ minedBlock.status = "throw"
             THEN [status |-> "throw", chain |-> <<>>, input |-> blocks,
                   digests |-> IF templateBlock.status = "throw"
                               THEN templateBlock.digests ELSE digests]
             ELSE [status |-> "ok",
                   chain |-> blocks \o
                       << [minedBlock.block EXCEPT !.duration = Elapsed(digests)] >>,
                   input |-> blocks,
                   digests |-> digests]

\* ValidateStep with the nonce left out of the recomputed digest
ValidateStepWithoutNonce(algorithm, blocks, i, acc) ==
    LET currentBlock == blocks[i]
        data == NumToString(currentBlock.index + currentBlock.timestamp) \o
                currentBlock.transaction \o currentBlock.previousHash
        ok == /\ ~acc.isBroken
              /\ currentBlock.hash = hash(algorithm, data)
              /\ currentBlock.previousHash = blocks[i - 1].hash
    IN  [acc EXCEPT !.isBroken = ~ok,
                    !.report = Append(@, [blockId |-> currentBlock.index, ok |-> ok]),
                    !.digests = IF acc.isBroken THEN @ ELSE Append(@, data)]

\* ValidateStep without the isBroken flag: every block is checked on its own
ValidateStepWithoutCascade(algorithm, blocks, i, acc) ==
    LET currentBlock == blocks[i]
        data == JsPlus(currentBlock.index, currentBlock.timestamp,
                       currentBlock.transaction, currentBlock.previousHash,
                       currentBlock.nonce)
        ok == /\ currentBlock.hash = hash(algorithm, data)
              /\ currentBlock.previousHash = blocks[i - 1].hash
    IN  [acc EXCEPT !.isBroken = @ \/ ~ok,
                    !.report = Append(@, [blockId |-> currentBlock.index, ok |-> ok]),
                    !.digests = Append(@, data)]

\* ValidateStep without the hash-integrity check: only the link is compared
ValidateStepLinkOnly(algorithm, blocks, i, acc) ==
    LET currentBlock == blocks[i]
        ok == /\ ~acc.isBroken
              /\ currentBlock.previousHash = blocks[i - 1].hash
    IN  [acc EXCEPT !.isBroken = ~ok,
                    !.report = Append(@, [blockId |-> currentBlock.index, ok |-> ok])]

\* one pass of validateChain's loop, for the block at position i (from 1);
\* acc is the report, the isBroken flag and the digests so far
ValidateStep(algorithm, blocks, i, acc) ==
    LET currentBlock == blocks[i]
        previousBlock == blocks[i - 1]
        data == JsPlus(currentBlock.index, currentBlock.timestamp,
                       currentBlock.transaction, currentBlock.previousHash,
                       currentBlock.nonce)
        computed == hash(algorithm, data)
        bad == [blockId |-> currentBlock.index, ok |-> FALSE]
        good == [blockId |-> currentBlock.index, ok |-> TRUE]
    IN  IF acc.isBroken
        THEN [acc EXCEPT !.report = Append(@, bad)]
        ELSE IF MissingParameters(algorithm, data)
        THEN [acc EXCEPT !.status = "throw"]
        ELSE IF currentBlock.hash # computed
        THEN [acc EXCEPT !.isBroken = TRUE, !.report = Append(@, bad),
                         !.digests = Append(@, data)]
        ELSE IF currentBlock.previousHash # previousBlock.hash
        THEN [acc EXCEPT !.isBroken = TRUE, !.report = Append(@, bad),
                         !.digests = Append(@, data)]
        ELSE [acc EXCEPT !.report = Append(@, good), !.digests = Append(@, data)]

RECURSIVE ValidateLoop(_, _, _, _)
ValidateLoop(algorithm, blocks, i, acc) ==
    IF i > Len(blocks) \/ acc.status = "throw"
    THEN acc
    ELSE ValidateLoop(algorithm, blocks, i + 1, ValidateStep(algorithm, blocks, i, acc))

\* validateChain with the first block's hash recomputed like the others'
validateChainChecksGenesis(algorithm, blocks) ==
    IF Len(blocks) = 0
    THEN [status |-> "ok", report |-> <<>>, isBroken |-> FALSE, digests |-> <<>>]
    ELSE LET data == JsPlus(blocks[1].index, blocks[1].timestamp,
                            blocks[1].transaction, blocks[1].previousHash,
                            blocks[1].nonce)
             ok == blocks[1].hash = hash(algorithm, data)
         IN  ValidateLoop(algorithm, blocks, 2,
                 [status |-> "ok",
                  report |-> << [blockId |-> blocks[1].index, ok |-> ok] >>,
                  isBroken |-> ~ok,
                  digests |-> <<data>>])

validateChain(algorithm, blocks) ==
    IF Len(blocks) = 0
    THEN [status |-> "ok", report |-> <<>>, isBroken |-> FALSE, digests |-> <<>>]
    ELSE ValidateLoop(algorithm, blocks, 2,
             [status |-> "ok",
              report |-> << [blockId |-> blocks[1].index, ok |-> TRUE] >>,
              isBroken |-> FALSE,
              digests |-> <<>>])

-----------------------------------------------------------------------------
(* The callers of the engine.                                              *)

\* useState(1): the difficulty App starts with
InitialDifficulty == 1

\* useState('SHA-256'): the algorithm App starts with
InitialAlgorithm == "SHA-256"

\* no asynchronous operation of App is pending
NoRuns == [mount |-> <<>>, recalculate |-> <<>>, addBlock |-> <<>>,
           verify |-> <<>>, stale |-> {}]

Init ==
    /\ chain = <<>>
    /\ mined = <<>>
    /\ minedWith = <<>>
    /\ tampered = FALSE
    /\ call = [op |-> "none"]
    /\ app = [mounted |-> FALSE, hung |-> FALSE,
              difficulty |-> InitialDifficulty, algorithm |-> InitialAlgorithm,
              transaction |-> Empty, verification |-> <<>>, isCalculating |-> TRUE]
    /\ runs = NoRuns
    /\ clicks = [changes |-> 0, adds |-> 0, breaks |-> 0, kept |-> <<>>, clean |-> TRUE]

\* a direct call of the block factory
CallCreateBlock(algorithm, index, timestamp, transaction, previousHash, nonce) ==
    \E r \in {createBlock(algorithm, index, timestamp, transaction, previousHash, nonce)} :
        /\ call' = [op |-> "createBlock", algorithm |-> algorithm, index |-> index,
                    timestamp |-> timestamp, transaction |-> transaction,
                    previousHash |-> previousHash, nonce |-> nonce,
                    status |-> r.status, block |-> r.block, digests |-> r.digests]
        /\ UNCHANGED <<chain, mined, minedWith, tampered, app, runs, clicks>>

\* a direct call of the miner
CallMineBlock(block, algorithm, difficulty) ==
    \E r \in {mineBlock(block, algorithm, difficulty)} :
        /\ call' = [op |-> "mineBlock", algorithm |-> algorithm,
                    difficulty |-> difficulty, input |-> block,
                    status |-> r.status, block |-> r.block, digests |-> r.digests]
        /\ UNCHANGED <<chain, mined, minedWith, tampered, app, runs, clicks>>

\* the caller starts its chain with the genesis block, as App's mount effect does
CallCreateGenesisBlock(algorithm, difficulty, now) ==
    \E r \in {createGenesisBlock(algorithm, difficulty, now)} :
        /\ call' = [op |-> "createGenesisBlock", algorithm |-> algorithm,
                    difficulty |-> difficulty, now |-> now,
                    status |-> r.status, block |-> r.block, digests |-> r.digests]
        /\ chain' = IF r.status = "ok" THEN <<r.block>> ELSE chain
        /\ mined' = chain'
        /\ minedWith' = IF r.status = "ok" THEN <<algorithm>> ELSE minedWith
        /\ UNCHANGED <<tampered, app, runs, clicks>>

\* the caller extends its chain and keeps the chain returned, as App's addBlock
\* does; `before` and `after` are the array passed in, before and after the call
CallAddBlock(transaction, algorithm, difficulty, now) ==
    \E r \in {addBlock(chain, transaction, algorithm, difficulty, now)} :
        /\ call' = [op |-> "addBlock", transaction |-> transaction,
                    algorithm |-> algorithm, difficulty |-> difficulty, now |-> now,
                    before |-> chain, after |-> r.input,
                    status |-> r.status, chain |-> r.chain, digests |-> r.digests]
        /\ chain' = IF r.status = "ok" THEN r.chain ELSE r.input
        /\ mined' = IF r.status = "ok" THEN Append(mined, r.chain[Len(r.chain)]) ELSE mined
        /\ minedWith' = IF r.status = "ok" THEN Append(minedWith, algorithm) ELSE minedWith
        /\ UNCHANGED <<tampered, app, runs, clicks>>

\* the caller validates its chain, as App's verify effect does
CallValidateChain(algorithm) ==
    \E r \in {validateChain(algorithm, chain)} :
        /\ call' = [op |-> "validateChain", algorithm |-> algorithm, input |-> chain,
                    status |-> r.status, report |-> r.report, digests |-> r.digests]
        /\ UNCHANGED <<chain, mined, minedWith, tampered, app, runs, clicks>>

NextBlock ==
    \/ /\ call.op = "none"
       /\ \E algorithm \in Algorithms, index \in 0..MaxIndex, timestamp \in Timestamps,
             transaction \in Transactions, previousHash \in PreviousHashes,
             nonce \in 0..MaxNonce :
            CallCreateBlock(algorithm, index, timestamp, transaction, previousHash, nonce)
    \/ /\ call.op = "createBlock"
       /\ \E block \in {call.block, [call.block EXCEPT !.hash = Empty]},
             algorithm \in Algorithms, difficulty \in Difficulties :
            CallMineBlock(block, algorithm, difficulty)

\* createBlock and mineBlock called directly
SpecBlock == Init /\ [][NextBlock]_vars

Next ==
    \/ /\ Len(chain) = 0
       /\ \E algorithm \in Algorithms, difficulty \in Difficulties, now \in Timestamps :
            CallCreateGenesisBlock(algorithm, difficulty, now)
    \/ /\ Len(chain) < MaxChain
       /\ \E transaction \in Transactions, algorithm \in Algorithms,
             difficulty \in Difficulties, now \in Timestamps :
            CallAddBlock(transaction, algorithm, difficulty, now)
    \/ \E algorithm \in Algorithms : CallValidateChain(algorithm)

\* the engine's three exported operations, called by a caller that keeps a chain
Spec == Init /\ [][Next]_vars

-----------------------------------------------------------------------------
(* A caller that alters an entry of its chain and validates again, as      *)
(* App's randomlyBreakOne does with the transaction of one block.          *)

\* the blocks an entry may be replaced by: any of its fields may change, and
\* the hash may be recomputed over the changed fields
Alterations(b) ==
    { Block(i, t, x, p, n, h, b.duration) :
        i \in {b.index, b.index + 1},
        t \in {b.timestamp, b.timestamp - 1},
        x \in {b.transaction, Oops},
        p \in {b.previousHash, Empty},
        n \in {b.nonce, b.nonce + 1},
        h \in {b.hash} } \cup
    { Block(i, t, x, p, n, hash(a, JsPlus(i, t, x, p, n)), b.duration) :
        i \in {b.index, b.index + 1},
        t \in {b.timestamp, b.timestamp - 1},
        x \in {b.transaction, Oops},
        p \in {b.previousHash, Empty},
        n \in {b.nonce, b.nonce + 1},
        a \in Algorithms }

Tamper(k, b) ==
    /\ k \in 1..Len(chain)
    /\ b # chain[k]
    /\ chain' = [chain EXCEPT ![k] = b]
    /\ tampered' = TRUE
    /\ call' = [op |-> "tamper", position |-> k]
    /\ UNCHANGED <<mined, minedWith, app, runs, clicks>>

NextTamper ==
    \/ /\ Len(chain) = 0
       /\ \E algorithm \in Algorithms, now \in Timestamps :
            CallCreateGenesisBlock(algorithm, InitialDifficulty, now)
    \/ /\ ~tampered
       /\ Len(chain) > 0
       /\ Len(chain) < MaxTamperChain
       /\ \E now \in Timestamps :
            /\ now >= chain[Len(chain)].timestamp
            /\ CallAddBlock(Tx1, minedWith[1], InitialDifficulty, now)
    \/ /\ ~tampered
       /\ \E k \in 1..Len(chain) : \E b \in Alterations(chain[k]) : Tamper(k, b)
    \/ \E algorithm \in Algorithms : CallValidateChain(algorithm)

\* chains built under one algorithm by a caller whose clock does not go back,
\* then altered in one entry and validated
SpecTamper == Init /\ [][NextTamper]_vars

-----------------------------------------------------------------------------
(* The React component App.  `chain` is its chain state; `app` holds its   *)
(* other state.  An asynchronous operation (an engine call that was        *)
(* started and has not settled) is a record in `runs`; the step that       *)
(* settles it runs the code after the await, the state updates of that     *)
(* code, the render they cause and the effects of that render.  The clock  *)
(* is read when the engine call starts.                                    *)

\* the user changes a setting or presses a button at most MaxClicks times
MaxClicks == 3
\* the text the user types for the n-th transaction: "tx1", "tx2", ...
Typed(n) == <<116, 120>> \o NumToString(n)

\* Date.now() and DateTime.utc().toMillis() as App's engine calls read them:
\* one reading for the whole session (the two createGenesisBlock calls of the
\* mount read the clock in the same flush of effects)
AppNow == MaxTime

\* the slider's values the user moves between
AppDifficulties == {InitialDifficulty, InitialDifficulty + 1}

RemoveAt(s, i) == SubSeq(s, 1, i - 1) \o SubSeq(s, i + 1, Len(s))

\* chain.slice(1).map(x => x.transaction)
TransactionsToKeep(blocks) == [i \in 1..(Len(blocks) - 1) |-> blocks[i + 1].transaction]

\* the verify effect of a render whose chain is new: the cleanup cancels the
\* pass that was started before and a pass over the new chain starts
VerifyEffect(r, algorithm, blocks) ==
    [r EXCEPT !.verify = << [algorithm |-> algorithm, chain |-> blocks] >>,
              !.stale = r.stale \cup Range(r.verify)]

\* the recalculate effect of a render whose difficulty or algorithm is new:
\* the cleanup cancels the run started before, and a new run starts, which
\* captures the transactions of the render's chain and awaits its genesis
\* block; next = 0 awaits the genesis block, next = k awaits addBlock for
\* the k-th transaction kept
RecalculateEffect(r, blocks, algorithm, difficulty, now) ==
    LET cancelled == [i \in DOMAIN r.recalculate |->
                         [r.recalculate[i] EXCEPT !.cancelled = TRUE]]
        run == [cancelled |-> FALSE, algorithm |-> algorithm,
                difficulty |-> difficulty,
                transactionsToKeep |-> TransactionsToKeep(blocks),
                currentChain |-> <<>>, next |-> 0, now |-> now]
    IN  [r EXCEPT !.recalculate = Append(cancelled, run)]

\* recalculate after `await createGenesisBlock`: what it passes to setChain
\* and setIsCalculating (nothing, or one value) and how the run goes on
RecalculateAfterGenesis(run, genesisBlock, now) ==
    IF run.cancelled
    THEN [setChain |-> <<>>, setIsCalculating |-> <<>>, run |-> <<>>]
    ELSE IF Len(run.transactionsToKeep) = 0
    THEN [setChain |-> << <<genesisBlock>> >>, setIsCalculating |-> <<FALSE>>,
          run |-> <<>>]
    ELSE [setChain |-> << <<genesisBlock>> >>, setIsCalculating |-> <<>>,
          run |-> << [run EXCEPT !.currentChain = <<genesisBlock>>, !.next = 1,
                                 !.now = now] >>]

\* recalculate after `await addBlock` in the loop: setChain comes first, the
\* cancellation flag is read at the top of the next pass of the loop only
RecalculateAfterAddBlock(run, newChain, now) ==
    IF run.next < Len(run.transactionsToKeep)
    THEN IF run.cancelled
         THEN [setChain |-> <<newChain>>, setIsCalculating |-> <<>>, run |-> <<>>]
         ELSE [setChain |-> <<newChain>>, setIsCalculating |-> <<>>,
               run |-> << [run EXCEPT !.currentChain = newChain, !.next = @ + 1,
                                      !.now = now] >>]
    ELSE [setChain |-> <<newChain>>, setIsCalculating |-> <<FALSE>>, run |-> <<>>]

\* verify without the isCancelled test
StoreVerificationAlways(isCancelled, result, verification) == result

\* verify after `await validateChain`: what the verification state becomes
StoreVerification(isCancelled, result, verification) ==
    IF ~isCancelled THEN result ELSE verification

\* the state updates of one continuation, the render they cause and the
\* effects of that render; setChain holds the array passed to setChain, if it
\* was called (any array passed is a new array, so the chain state changes)
Render(nextApp, setChain, nextRuns) ==
    IF setChain = <<>>
    THEN /\ app' = nextApp
         /\ chain' = chain
         /\ runs' = nextRuns
    ELSE /\ chain' = setChain[1]
         /\ app' = [nextApp EXCEPT !.verification = <<>>]
         /\ runs' = VerifyEffect(nextRuns, nextApp.algorithm, setChain[1])

\* the first render and its three effects, then the render caused by the
\* setChain([]) of the recalculate effect
Mount(now1, now2) ==
    /\ ~app.mounted
    /\ LET started ==
               [NoRuns EXCEPT
                   !.mount = << [algorithm |-> app.algorithm,
                                 difficulty |-> app.difficulty, now |-> now1] >>,
                   !.verify = << [algorithm |-> app.algorithm, chain |-> chain] >>]
       IN  Render([app EXCEPT !.mounted = TRUE, !.isCalculating = TRUE],
                  << <<>> >>,
                  RecalculateEffect(started, chain, app.algorithm, app.difficulty, now2))
    /\ call' = [op |-> "App.mount"]
    /\ UNCHANGED <<mined, minedWith, tampered, clicks>>

\* the mount effect's createGenesisBlock settles
MountGenesisSettles ==
    /\ runs.mount # <<>>
    /\ \E r \in {createGenesisBlock(runs.mount[1].algorithm, runs.mount[1].difficulty,
                                    runs.mount[1].now)} :
        /\ r.status = "ok"
        /\ Render([app EXCEPT !.isCalculating = FALSE], << <<r.block>> >>,
                  [runs EXCEPT !.mount = <<>>])
    /\ call' = [op |-> "App.mount.then"]
    /\ UNCHANGED <<mined, minedWith, tampered, clicks>>

\* setDifficulty or setAlgorithm with a new value: the render runs the
\* recalculate effect, whose setChain([]) causes the next render
ChangeSettings(nextApp, now) ==
    /\ Render([nextApp EXCEPT !.isCalculating = TRUE], << <<>> >>,
              RecalculateEffect(runs, chain, nextApp.algorithm, nextApp.difficulty, now))
    /\ clicks' = [clicks EXCEPT
           !.changes = @ + 1,
           !.kept = IF clicks.changes = 0 THEN TransactionsToKeep(chain) ELSE @,
           !.clean = IF clicks.changes = 0
                     THEN runs.mount = <<>> /\ runs.addBlock = <<>>
                     ELSE @]
    /\ UNCHANGED <<mined, minedWith, tampered>>

SetDifficulty(value, now) ==
    /\ value # app.difficulty
    /\ ChangeSettings([app EXCEPT !.difficulty = value], now)
    /\ call' = [op |-> "App.setDifficulty"]

SetAlgorithm(value, now) ==
    /\ value # app.algorithm
    /\ ChangeSettings([app EXCEPT !.algorithm = value], now)
    /\ call' = [op |-> "App.setAlgorithm"]

\* what a step of a recalculate run did, for the record of the call
RecalculateCall(run, u) ==
    [op |-> "App.recalculate", cancelled |-> run.cancelled,
     setChain |-> u.setChain # <<>>, setIsCalculating |-> u.setIsCalculating # <<>>]

RecalculateStep(i, u) ==
    /\ Render([app EXCEPT !.isCalculating =
                   IF u.setIsCalculating = <<>> THEN @ ELSE u.setIsCalculating[1]],
              u.setChain,
              [runs EXCEPT !.recalculate =
                   IF u.run = <<>> THEN RemoveAt(@, i) ELSE [@ EXCEPT ![i] = u.run[1]]])
    /\ call' = RecalculateCall(runs.recalculate[i], u)
    /\ UNCHANGED <<mined, minedWith, tampered, clicks>>

\* the createGenesisBlock of the i-th recalculate run settles
RecalculateGenesisSettles(i, now) ==
    /\ i \in DOMAIN runs.recalculate
    /\ runs.recalculate[i].next = 0
    /\ LET run == runs.recalculate[i]
       IN  \E r \in {createGenesisBlock(run.algorithm, run.difficulty, run.now)} :
               /\ r.status = "ok"
               /\ RecalculateStep(i, RecalculateAfterGenesis(run, r.block, now))

\* the addBlock of the i-th recalculate run settles
RecalculateAddBlockSettles(i, now) ==
    /\ i \in DOMAIN runs.recalculate
    /\ runs.recalculate[i].next > 0
    /\ LET run == runs.recalculate[i]
       IN  \E r \in {addBlock(run.currentChain, run.transactionsToKeep[run.next],
                              run.algorithm, run.difficulty, run.now)} :
               /\ r.status = "ok"
               /\ RecalculateStep(i, RecalculateAfterAddBlock(run, r.chain, now))

\* the user types into the empty transaction input
SetTransaction(value) ==
    /\ app.transaction = Empty
    /\ app' = [app EXCEPT !.transaction = value]
    /\ call' = [op |-> "App.setTransaction"]
    /\ UNCHANGED <<chain, mined, minedWith, tampered, runs, clicks>>

\* the user presses "Add Transaction", which is enabled when the input is not
\* empty: App's addBlock runs up to its await; the engine's addBlock throws
\* at once on an empty chain, and the handler's promise is rejected
AppAddBlock(now) ==
    /\ app.transaction # Empty
    /\ \E r \in {addBlock(chain, app.transaction, app.algorithm, app.difficulty, now)} :
        /\ app' = [app EXCEPT !.isCalculating = TRUE]
        /\ runs' = IF r.status = "throw" THEN runs
                   ELSE [runs EXCEPT !.addBlock =
                            Append(@, [chain |-> chain, transaction |-> app.transaction,
                                       algorithm |-> app.algorithm,
                                       difficulty |-> app.difficulty, now |-> now])]
        /\ call' = [op |-> "App.addBlock",
                    status |-> IF r.status = "throw" THEN "throw" ELSE "pending",
                    chainLength |-> Len(chain)]
    /\ clicks' = [clicks EXCEPT !.adds = @ + 1,
                                !.clean = IF clicks.changes = 0 THEN @ ELSE FALSE]
    /\ UNCHANGED <<chain, mined, minedWith, tampered>>

\* the engine's addBlock of the i-th pending add settles
AppAddBlockSettles(i) ==
    /\ i \in DOMAIN runs.addBlock
    /\ LET run == runs.addBlock[i]
       IN  \E r \in {addBlock(run.chain, run.transaction, run.algorithm,
                              run.difficulty, run.now)} :
               /\ r.status = "ok"
               /\ Render([app EXCEPT !.transaction = Empty, !.isCalculating = FALSE],
                         <<r.chain>>,
                         [runs EXCEPT !.addBlock = RemoveAt(@, i)])
               /\ call' = [op |-> "App.addBlock.then", transaction |-> run.transaction,
                           before |-> chain]
    /\ UNCHANGED <<mined, minedWith, tampered, clicks>>

\* the positions the loop of randomlyBreakOne can stop at
Breakable(blocks) == {k \in 1..Len(blocks) : blocks[k].index # 0}

\* the user presses "Break one": on the empty chain chain[0].index throws; on
\* a chain whose blocks all have index 0 the loop never ends and the page
\* stays stuck in the handler; otherwise one block with another index gets
\* the transaction "Oops! I broke this one"
RandomlyBreakOne ==
    /\ IF Len(chain) = 0
       THEN /\ call' = [op |-> "App.randomlyBreakOne", status |-> "throw",
                        before |-> chain]
            /\ UNCHANGED <<chain, app, runs, tampered>>
       ELSE IF Breakable(chain) = {}
       THEN /\ call' = [op |-> "App.randomlyBreakOne", status |-> "loop",
                        before |-> chain]
            /\ app' = [app EXCEPT !.hung = TRUE]
            /\ UNCHANGED <<chain, runs, tampered>>
       ELSE \E selectedBlock \in Breakable(chain) :
            /\ Render(app, << [chain EXCEPT ![selectedBlock].transaction = Oops] >>, runs)
            /\ tampered' = TRUE
            /\ call' = [op |-> "App.randomlyBreakOne", status |-> "ok",
                        before |-> chain]
    /\ clicks' = [clicks EXCEPT !.breaks = @ + 1,
                                !.clean = IF clicks.changes = 0 THEN @ ELSE FALSE]
    /\ UNCHANGED <<mined, minedWith>>

\* the validateChain of the verify pass that is not cancelled settles
VerifySettles ==
    /\ runs.verify # <<>>
    /\ \E r \in {validateChain(runs.verify[1].algorithm, runs.verify[1].chain)} :
        /\ r.status = "ok"
        /\ app' = [app EXCEPT !.verification =
                       StoreVerification(FALSE, r.report, app.verification)]
    /\ runs' = [runs EXCEPT !.verify = <<>>]
    /\ call' = [op |-> "App.verify", isCancelled |-> FALSE]
    /\ UNCHANGED <<chain, mined, minedWith, tampered, clicks>>

\* the validateChain of a cancelled verify pass settles
StaleVerifySettles(pass) ==
    /\ pass \in runs.stale
    /\ \E r \in {validateChain(pass.algorithm, pass.chain)} :
        /\ r.status = "ok"
        /\ app' = [app EXCEPT !.verification =
                       StoreVerification(TRUE, r.report, app.verification)]
    /\ runs' = [runs EXCEPT !.stale = @ \ {pass}]
    /\ call' = [op |-> "App.verify", isCancelled |-> TRUE]
    /\ UNCHANGED <<chain, mined, minedWith, tampered, clicks>>

\* App is mounted and its event loop is free
Running == app.mounted /\ ~app.hung

\* the user may still change a setting or press a button
Clicking == Running /\ clicks.changes + clicks.adds + clicks.breaks < MaxClicks

\* a step that calls setChain cancels the verify pass in flight; it is taken
\* when the passes cancelled before have settled
Settling == Running /\ runs.stale = {}

NextApp ==
    \/ Mount(AppNow, AppNow)
    \/ Settling /\ MountGenesisSettles
    \/ Settling /\ Clicking /\ \E value \in AppDifficulties : SetDifficulty(value, AppNow)
    \/ Settling /\ Clicking /\ \E value \in Algorithms : SetAlgorithm(value, AppNow)
    \/ Settling /\ \E i \in DOMAIN runs.recalculate : RecalculateGenesisSettles(i, AppNow)
    \/ Settling /\ \E i \in DOMAIN runs.recalculate : RecalculateAddBlockSettles(i, AppNow)
    \/ Settling /\ \E i \in DOMAIN runs.addBlock : AppAddBlockSettles(i)
    \/ Settling /\ Clicking /\ RandomlyBreakOne
    \/ Clicking /\ SetTransaction(Typed(clicks.adds + 1))
    \/ Clicking /\ AppAddBlock(AppNow)
    \/ Running /\ VerifySettles
    \/ Running /\ \E pass \in runs.stale : StaleVerifySettles(pass)

\* App from its mount on, with a user who changes the settings, types and
\* adds transactions and breaks blocks while the engine calls are pending
SpecApp == Init /\ [][NextApp]_vars

-----------------------------------------------------------------------------
(* Properties.                                                             *)

\* h has at least d leading '0' characters
HasLeadingZeros(h, d) == Len(h) >= d /\ \A i \in 1..d : h[i] = 48

\* the text the engine hashes for block b, with the nonce replaced by n
ContentAt(b, n) == JsPlus(b.index, b.timestamp, b.transaction, b.previousHash, n)

Content(b) == ContentAt(b, b.nonce)

\* the separator-free concatenation of the five fields' own texts
Concatenation(index, timestamp, transaction, previousHash, nonce) ==
    NumToString(index) \o NumToString(timestamp) \o transaction \o previousHash \o
    NumToString(nonce)

SameContentFields(a, b) ==
    /\ a.index = b.index
    /\ a.timestamp = b.timestamp
    /\ a.transaction = b.transaction
    /\ a.previousHash = b.previousHash

\* C1: createBlock returns a block whose hash is the digest, under the call's
\* algorithm, of the decimal text of index, the decimal text of timestamp,
\* transaction, previousHash and the decimal text of nonce, concatenated
\* without separators.
C1_HashIsDigestOfConcatenation ==
    (call.op = "createBlock" /\ call.status = "ok") =>
        call.block.hash =
            hash(call.algorithm,
                 Concatenation(call.index, call.timestamp, call.transaction,
                               call.previousHash, call.nonce))

\* C2: for an input block whose hash createBlock computed, mineBlock returns
\* a block with the input's index, timestamp, transaction and previousHash,
\* whose hash has at least `difficulty` leading '0' characters and whose nonce
\* is the smallest one from the input's nonce upward whose digest meets the
\* difficulty; the candidates hashed are the nonces after the input's, in
\* ascending order and in steps of 1.
C2_MineBlockFindsSmallestNonce ==
    (/\ call.op = "mineBlock"
     /\ call.input.hash = hash(call.algorithm, Content(call.input))) =>
        LET in == call.input
            out == call.block
            DigestAt(n) == hash(call.algorithm, ContentAt(in, n))
        IN  /\ call.status = "ok"
            /\ SameContentFields(out, in)
            /\ out.nonce >= in.nonce
            /\ out.hash = DigestAt(out.nonce)
            /\ HasLeadingZeros(out.hash, call.difficulty)
            /\ \A n \in in.nonce..(out.nonce - 1) :
                   ~HasLeadingZeros(DigestAt(n), call.difficulty)
            /\ call.digests =
                   [k \in 1..(out.nonce - in.nonce) |-> ContentAt(in, in.nonce + k)]

\* a search of at least two steps from a block that createBlock hashed
C2_Witness ==
    /\ call.op = "mineBlock"
    /\ call.input.hash = hash(call.algorithm, Content(call.input))
    /\ call.difficulty >= 1
    /\ call.block.nonce >= call.input.nonce + 2

\* C3: createGenesisBlock returns a block with index 0, transaction
\* "Genesis Block" and previousHash "0" whose nonce is the smallest one from 0
\* upward whose digest meets the difficulty; the candidate with nonce 0 is
\* hashed.
C3_GenesisSearchStartsAtNonceZero ==
    (call.op = "createGenesisBlock" /\ call.status = "ok") =>
        LET b == call.block
            DigestAt(n) == hash(call.algorithm, ContentAt(b, n))
        IN  /\ b.index = 0
            /\ b.transaction = GenesisTransaction
            /\ b.previousHash = Zero
            /\ HasLeadingZeros(DigestAt(b.nonce), call.difficulty)
            /\ \A n \in 0..(b.nonce - 1) :
                   ~HasLeadingZeros(DigestAt(n), call.difficulty)
            /\ ContentAt(b, 0) \in Range(call.digests)

\* the block the last call handed to its caller, if it handed one
Returned ==
    IF call.op = "createGenesisBlock" /\ call.status = "ok" THEN {call.block}
    ELSE IF call.op = "addBlock" /\ call.status = "ok"
    THEN {call.chain[Len(call.chain)]}
    ELSE {}

\* C4: every block createGenesisBlock returns or addBlock appends, for every
\* difficulty from 0 upward, has a non-empty hash that is the digest of its
\* own fields and has at least `difficulty` leading '0' characters.
C4_ReturnedBlocksAreFullyMined ==
    \A b \in Returned :
        /\ b.hash # Empty
        /\ b.hash = hash(call.algorithm, Content(b))
        /\ HasLeadingZeros(b.hash, call.difficulty)

\* C5: for a non-empty chain c, addBlock returns a chain of length |c|+1 whose
\* first |c| entries are those of c and whose last block has the index after
\* last(c)'s, last(c)'s hash as previousHash and the transaction passed; the
\* array passed in is as it was.
C5_AddBlockAppendsAndKeepsInput ==
    (call.op = "addBlock" /\ Len(call.before) > 0) =>
        LET c == call.before
            last == call.chain[Len(call.chain)]
        IN  /\ call.status = "ok"
            /\ Len(call.chain) = Len(c) + 1
            /\ \A i \in 1..Len(c) : call.chain[i] = c[i]
            /\ last.index = c[Len(c)].index + 1
            /\ last.previousHash = c[Len(c)].hash
            /\ last.transaction = call.transaction
            /\ call.after = c

\* a block was added to a chain that already had an added block's predecessor
C5_Witness ==
    /\ call.op = "addBlock"
    /\ call.status = "ok"
    /\ Len(call.before) = MaxChain - 1
    /\ call.transaction = Tx1
    /\ call.chain[Len(call.chain)].nonce > 0

\* every block of the chain was mined with algorithm a and none was altered
MinedUnder(a) ==
    /\ ~tampered
    /\ \A i \in 1..Len(minedWith) : minedWith[i] = a

\* C6: a chain made by createGenesisBlock and addBlock calls that all used one
\* algorithm, whatever the transactions and difficulties, is reported ok for
\* every block by validateChain under that algorithm.
C6_EngineBuiltChainValidates ==
    (/\ call.op = "validateChain"
     /\ call.input = mined
     /\ MinedUnder(call.algorithm)) =>
        /\ call.status = "ok"
        /\ Len(call.report) = Len(call.input)
        /\ \A i \in 1..Len(call.report) : call.report[i].ok

\* a chain of the longest length, with a searched nonce, was validated
C6_Witness ==
    /\ call.op = "validateChain"
    /\ call.input = mined
    /\ MinedUnder(call.algorithm)
    /\ Len(call.input) = MaxChain
    /\ \E i \in 2..Len(call.input) : call.input[i].nonce > 0

\* the block at position i of c fails the hash-integrity check or the link
\* check under algorithm a
FailsCheck(a, c, i) ==
    \/ c[i].hash # hash(a, Content(c[i]))
    \/ c[i].previousHash # c[i - 1].hash

\* the positions after the first whose block fails a check
Failing(a, c) == {i \in 2..Len(c) : FailsCheck(a, c, i)}

FirstFailing(a, c) == CHOOSE k \in Failing(a, c) : \A i \in Failing(a, c) : k <= i

\* C7: for any chain, if k (after the first position) is the first position
\* whose block fails the hash-integrity check or the link check, validateChain
\* reports ok = false at k and at every later position, computes no digest for
\* a position after k, and reports for the positions before k what it reports
\* for the chain cut before k.
C7_Cascade ==
    (call.op = "validateChain" /\ Failing(call.algorithm, call.input) # {}) =>
        LET c == call.input
            k == FirstFailing(call.algorithm, c)
            cut == validateChain(call.algorithm, SubSeq(c, 1, k - 1))
        IN  /\ call.status = "ok"
            /\ Len(call.report) = Len(c)
            /\ \A j \in k..Len(c) : call.report[j].ok = FALSE
            /\ call.digests = [i \in 1..(k - 1) |-> Content(c[i + 1])]
            /\ \A j \in 1..(k - 1) : call.report[j] = cut.report[j]

\* the second block of three fails and the third, sound on its own, is
\* reported broken with it
C7_Witness ==
    /\ call.op = "validateChain"
    /\ Len(call.input) = 3
    /\ Failing(call.algorithm, call.input) = {2}
    /\ call.report[3].ok = FALSE

\* the chain validated is the mined one with the transaction at k replaced
TransactionReplacedAt(k) ==
    /\ tampered
    /\ k \in 2..Len(mined)
    /\ call.input[k].transaction # mined[k].transaction
    /\ call.input = [mined EXCEPT ![k].transaction = call.input[k].transaction]

\* C8: for an engine-built chain of at least two blocks, after the transaction
\* of the block at position k (not the first) is replaced by a different
\* string, validateChain under the mining algorithm returns one entry per
\* block, in order, ok = true before k and ok = false from k on, provided the
\* digests of the old and the new content differ.
C8_TamperedTransactionBreaksFromThere ==
    \A k \in 2..Len(mined) :
        (/\ call.op = "validateChain"
         /\ TransactionReplacedAt(k)
         /\ \A i \in 1..Len(minedWith) : minedWith[i] = call.algorithm
         /\ hash(call.algorithm, Content(call.input[k])) #
                hash(call.algorithm, Content(mined[k]))) =>
            /\ call.status = "ok"
            /\ Len(call.report) = Len(call.input)
            /\ \A j \in 1..Len(call.report) :
                   /\ call.report[j].blockId = call.input[j].index
                   /\ call.report[j].ok = (j < k)

\* the middle block of three had its transaction replaced
C8_Witness ==
    /\ call.op = "validateChain"
    /\ Len(mined) = 3
    /\ TransactionReplacedAt(2)
    /\ \A i \in 1..Len(minedWith) : minedWith[i] = call.algorithm
    /\ hash(call.algorithm, Content(call.input[2])) #
           hash(call.algorithm, Content(mined[2]))

\* b differs from the mined block m in one or more content fields with the
\* hash as mined, or in its hash with the content fields as mined
Altered(b, m) ==
    \/ /\ ~(SameContentFields(b, m) /\ b.nonce = m.nonce)
       /\ b.hash = m.hash
    \/ /\ SameContentFields(b, m) /\ b.nonce = m.nonce
       /\ b.hash # m.hash

\* C9: for an engine-built chain, a block after the first that was altered
\* in one or more of index, timestamp, transaction, previousHash and nonce, or
\* in its hash, is reported ok = false by validateChain under the mining
\* algorithm, the digest taken as free of collisions on distinct inputs.
C9_AlteredBlockIsReportedBroken ==
    \A k \in 2..Len(mined) :
        (/\ call.op = "validateChain"
         /\ tampered
         /\ Len(call.input) = Len(mined)
         /\ \A i \in 1..Len(minedWith) : minedWith[i] = call.algorithm
         /\ Altered(call.input[k], mined[k])
         /\ Content(call.input[k]) # Content(mined[k]) =>
                hash(call.algorithm, Content(call.input[k])) #
                    hash(call.algorithm, Content(mined[k]))) =>
            call.report[k].ok = FALSE

\* C10: for any non-empty chain, whatever its first element holds, the first
\* entry of validateChain's report is {blockId: chain[0].index, ok: true}; for
\* the empty chain the report is empty; no error is raised.
C10_GenesisAlwaysReportedTrue ==
    call.op = "validateChain" =>
        /\ call.status = "ok"
        /\ Len(call.input) = 0 => call.report = <<>>
        /\ Len(call.input) > 0 =>
               call.report[1] = [blockId |-> call.input[1].index, ok |-> TRUE]

\* a chain whose first element has a wrong index and a wrong hash was validated
C10_Witness ==
    /\ call.op = "validateChain"
    /\ tampered
    /\ Len(call.input) > 0
    /\ call.input[1].index # 0
    /\ call.input[1].hash # hash(call.algorithm, Content(call.input[1]))
    /\ call.report[1].ok

\* C11: for a chain mined entirely under one algorithm, validateChain called
\* with a different algorithm reports ok = true for the genesis block and
\* ok = false for every other block.
C11_OtherAlgorithmBreaksAllButGenesis ==
    (/\ call.op = "validateChain"
     /\ call.input = mined
     /\ ~tampered
     /\ Len(mined) > 0
     /\ \A i \in 1..Len(minedWith) : minedWith[i] = minedWith[1]
     /\ call.algorithm # minedWith[1]) =>
        /\ call.status = "ok"
        /\ Len(call.report) = Len(call.input)
        /\ call.report[1].ok = TRUE
        /\ \A j \in 2..Len(call.report) : call.report[j].ok = FALSE

\* a chain of the longest length mined under one algorithm was validated
\* under the other
C11_Witness ==
    /\ call.op = "validateChain"
    /\ call.input = mined
    /\ ~tampered
    /\ Len(mined) = MaxChain
    /\ \A i \in 1..Len(minedWith) : minedWith[i] = minedWith[1]
    /\ call.algorithm # minedWith[1]
    /\ call.report[MaxChain].ok = FALSE

\* C12: once a recalculate run has been cancelled (difficulty or algorithm
\* changed again while it was running), no later step of that run calls
\* setChain or setIsCalculating, also when a single-block mining step of the
\* run settles after the cancellation.
C12_CancelledRunUpdatesNothing ==
    (call.op = "App.recalculate" /\ call.cancelled) =>
        /\ ~call.setChain
        /\ ~call.setIsCalculating

\* the recalculate runs that have not been cancelled
LiveRecalculations == {i \in DOMAIN runs.recalculate : ~runs.recalculate[i].cancelled}

\* the pending mining operations whose continuation writes the chain state
Writers == Len(runs.mount) + Cardinality(LiveRecalculations) + Len(runs.addBlock)

\* C13: at any moment at most one mining operation that will write App's
\* chain state is in flight, across the mount-time genesis creation, the
\* recalculate runs and the addBlock calls of the user.
C13_AtMostOneWriter == Writers <= 1

\* the verify pass that is not cancelled is over the current chain under the
\* current algorithm and nothing is stored while it runs; when no such pass
\* runs the stored verification is validateChain's report for the current
\* chain under the current algorithm
VerificationFollowsChain ==
    app.mounted =>
        IF runs.verify # <<>>
        THEN /\ runs.verify[1] = [algorithm |-> app.algorithm, chain |-> chain]
             /\ app.verification = <<>>
        ELSE app.verification = validateChain(app.algorithm, chain).report

\* C14: each change of App's chain state starts a validateChain pass over the
\* new chain; the report of a pass started for an earlier chain is never
\* stored once a later chain has been set; when the passes have settled the
\* stored verification is validateChain(current algorithm, current chain);
\* a pass that settles leaves the chain as it is.
C14_ValidationFollowsEveryChainChange ==
    /\ []VerificationFollowsChain
    /\ [][call'.op = "App.verify" => chain' = chain]_vars

\* a cancelled pass settled after the pass over a chain of two blocks or more
\* had stored its report, which tells a broken block from a sound one
C14_Witness ==
    /\ call.op = "App.verify"
    /\ call.isCancelled
    /\ runs.verify = <<>>
    /\ Len(chain) >= 2
    /\ app.verification = validateChain(app.algorithm, chain).report
    /\ \E entry \in Range(app.verification) : ~entry.ok

\* C15: in every reachable state of App, also while a recalculate run has
\* cleared the chain and is still mining, addBlock is never invoked with an
\* empty chain.
C15_AddBlockNeverOnEmptyChain ==
    call.op = "App.addBlock" => call.chainLength > 0

\* no mount-time, recalculate or add operation is in flight
Idle ==
    /\ app.mounted
    /\ runs.mount = <<>>
    /\ runs.recalculate = <<>>
    /\ runs.addBlock = <<>>

\* C18: after any sequence of difficulty or algorithm changes, also one made
\* while an earlier recalculate run is still running, once recalculation has
\* finished the chain is a genesis block followed by one block per
\* non-genesis block the chain held before the first change, with the same
\* transactions in the same order (no add or break interfering: none pending
\* at the first change, none made after it).
C18_RecalculateKeepsTransactions ==
    (Idle /\ clicks.changes >= 1 /\ clicks.clean) =>
        /\ Len(chain) = Len(clicks.kept) + 1
        /\ chain[1].index = 0
        /\ chain[1].transaction = GenesisTransaction
        /\ TransactionsToKeep(chain) = clicks.kept

\* C19: when the mining of a transaction submitted through App's addBlock
\* settles, the transaction is in the chain and every block that was in the
\* chain just before is still in it.
C19_AddLosesNoBlock ==
    call.op = "App.addBlock.then" =>
        /\ \E b \in Range(chain) : b.transaction = call.transaction
        /\ \A b \in Range(call.before) : b \in Range(chain)

\* C20: whenever no mount-time, recalculate or add operation is in flight,
\* every hash of the chain has at least the current difficulty's leading '0'
\* characters and, unless randomlyBreakOne was used, validateChain under the
\* current algorithm reports every block ok = true.
C20_IdleChainMinedUnderCurrentSettings ==
    Idle =>
        /\ \A b \in Range(chain) : HasLeadingZeros(b.hash, app.difficulty)
        /\ ~tampered =>
               \A entry \in Range(validateChain(app.algorithm, chain).report) : entry.ok

\* C16: addBlock invoked with an empty chain fails with an error before any
\* digest is computed and returns no chain; the empty chain passed in is left
\* as it was.
C16_AddBlockOnEmptyChainFails ==
    (call.op = "addBlock" /\ Len(call.before) = 0) =>
        /\ call.status = "throw"
        /\ call.digests = <<>>
        /\ call.chain = <<>>
        /\ call.after = <<>>
        /\ chain = <<>>

\* addBlock was called before any genesis block was made
C16_Witness ==
    /\ call.op = "addBlock"
    /\ call.before = <<>>
    /\ call.transaction = Tx1
    /\ call.difficulty = MaxDifficulty

\* C17: for every input block, whatever its hash and nonce, mineBlock with
\* difficulty 0 returns that block unchanged, without handing anything to
\* the digest provider.
C17_DifficultyZeroReturnsInput ==
    (call.op = "mineBlock" /\ call.difficulty = 0) =>
        /\ call.status = "ok"
        /\ call.block = call.input
        /\ call.digests = <<>>

\* difficulty 0 was asked for a block without a hash and for a block whose
\* hash has no leading '0'
C17_Witness ==
    /\ call.op = "mineBlock"
    /\ call.difficulty = 0
    /\ call.input.nonce > 0
    /\ \/ call.input.hash = Empty
       \/ ~HasLeadingZeros(call.input.hash, 1)

\* C21: in every chain state App can reach (empty, genesis only, or longer)
\* randomlyBreakOne terminates without error, and when it changes the chain
\* it replaces the transaction of exactly one block that is not the genesis
\* block and leaves the genesis block, every other block and the chain's
\* length and order as they were.
C21_BreakOneTerminatesAndChangesOneBlock ==
    call.op = "App.randomlyBreakOne" =>
        /\ call.status = "ok"
        /\ Len(chain) = Len(call.before)
        /\ chain[1] = call.before[1]
        /\ \E k \in 2..Len(chain) :
               chain = [call.before EXCEPT ![k].transaction = Oops]

=============================================================================
